---------------------------- MODULE Spec2Model ----------------------------
(***************************************************************************)
(* A model of ApiController (src/server/apiController.ts): the dispatcher  *)
(* postMessageParser, the handlers it reaches through this[message.cmd],   *)
(* the state-change notifier bound in the constructor, and dispose().      *)
(*                                                                         *)
(* JavaScript runs the controller on one thread.  A call of                *)
(* postMessageParser runs synchronously up to its first await; each later  *)
(* continuation is one atomic step.  A collaborator promise settling and   *)
(* the continuation that consumes it are taken as one step (the settling   *)
(* itself touches no controller state).                                    *)
(***************************************************************************)
EXTENDS Integers, Sequences, FiniteSets, TLC

(***************************************************************************)
(* Bounds of the model.                                                    *)
(***************************************************************************)
MaxInbound == 2     \* envelopes the UI sends over the channel
MaxEvents == 1      \* state-change events of the backing service
MaxDispose == 2     \* dispose() calls made by the owner
MaxLogInbound == 1  \* getLogEntries envelopes under SpecLog
MaxActionInbound == 1  \* envelopes under SpecAction

(***************************************************************************)
(* JavaScript values that the handlers inspect.  A string that is parsed   *)
(* is a sequence of one-character strings.                                 *)
(***************************************************************************)
Undefined == [t |-> "undefined"]
NaN == [t |-> "NaN"]
Num(n) == [t |-> "number", n |-> n]
Str(s) == [t |-> "string", s |-> s]

\* The request id that an envelope without a requestId property yields.
UndefinedId == "<undefined>"

\* ToBoolean, as used by `args.startIndex ? ... : ...`
Truthy(v) ==
    CASE v.t = "undefined" -> FALSE
      [] v.t = "NaN" -> FALSE
      [] v.t = "number" -> v.n # 0
      [] v.t = "string" -> Len(v.s) > 0
      [] OTHER -> TRUE

IsWhiteSpace(c) == c = " "

DigitValue(c) ==
    CASE c = "0" -> 0 [] c = "1" -> 1 [] c = "2" -> 2 [] c = "3" -> 3
      [] c = "4" -> 4 [] c = "5" -> 5 [] c = "6" -> 6 [] c = "7" -> 7
      [] c = "8" -> 8 [] c = "9" -> 9 [] c = "a" -> 10 [] c = "b" -> 11
      [] c = "c" -> 12 [] c = "d" -> 13 [] c = "e" -> 14 [] c = "f" -> 15
      [] OTHER -> 99

RECURSIVE TrimStart(_)
TrimStart(s) ==
    IF s # <<>> /\ IsWhiteSpace(Head(s)) THEN TrimStart(Tail(s)) ELSE s

\* The longest prefix of s made of digits of the radix, as <<value, length>>.
RECURSIVE DigitPrefix(_, _, _, _)
DigitPrefix(s, radix, acc, n) ==
    IF s # <<>> /\ DigitValue(Head(s)) < radix
    THEN DigitPrefix(Tail(s), radix, acc * radix + DigitValue(Head(s)), n + 1)
    ELSE <<acc, n>>

HasHexPrefix(s) == Len(s) >= 2 /\ s[1] = "0" /\ s[2] \in {"x", "X"}

\* parseInt(string, radix); radix 0 stands for an omitted radix.
ParseIntString(str, radix) ==
    LET s0 == TrimStart(str)
        neg == s0 # <<>> /\ Head(s0) = "-"
        s1 == IF s0 # <<>> /\ Head(s0) \in {"-", "+"} THEN Tail(s0) ELSE s0
        strip == radix = 0 \/ radix = 16
        hex == strip /\ HasHexPrefix(s1)
        r == IF hex THEN 16 ELSE IF radix = 0 THEN 10 ELSE radix
        s2 == IF hex THEN SubSeq(s1, 3, Len(s1)) ELSE s1
        z == DigitPrefix(s2, r, 0, 0)
    IN  IF z[2] = 0 THEN NaN ELSE Num(IF neg THEN 0 - z[1] ELSE z[1])

\* parseInt applied to a value of the model (numbers of the model are integers,
\* whose decimal form parseInt reads back unchanged).
ParseInt(v, radix) ==
    CASE v.t = "number" -> v
      [] v.t = "string" -> ParseIntString(v.s, radix)
      [] OTHER -> NaN

(***************************************************************************)
(* getLogEntries: the normalisation of the payload (lines 49-60).          *)
(***************************************************************************)
NormSearchText(args) ==
    IF args.searchText.t = "string" /\ Len(args.searchText.s) = 0
    THEN Undefined ELSE args.searchText

NormStartIndex(args) ==
    IF Truthy(args.startIndex) THEN ParseInt(args.startIndex, 0) ELSE Num(0)

NormStopIndex(args) ==
    IF Truthy(args.stopIndex) THEN ParseInt(args.stopIndex, 0) ELSE Num(30)

NormAuthor(args) ==
    IF args.authorFilter.t = "string" THEN args.authorFilter ELSE Undefined

NormLineNumber(args) ==
    IF Truthy(args.line) THEN ParseInt(args.line, 10) ELSE Undefined

NormFile(args) ==
    IF Truthy(args.file) THEN [t |-> "Uri", path |-> args.file] ELSE Undefined

\* The arguments of this.gitService.getLogEntries(...) (lines 62-70).
LogQuery(args) ==
    [fn |-> "getLogEntries",
     startIndex |-> NormStartIndex(args),
     stopIndex |-> NormStopIndex(args),
     branch |-> args.branchName,
     searchText |-> NormSearchText(args),
     file |-> NormFile(args),
     lineNumber |-> NormLineNumber(args),
     author |-> NormAuthor(args)]

\* The object returned on lines 72-76: the entries with the bounds echoed.
LogResult(entries, args) ==
    [t |-> "logEntries", items |-> entries,
     startIndex |-> NormStartIndex(args),
     stopIndex |-> NormStopIndex(args)]

(***************************************************************************)
(* Other conversions and collaborators' data.                              *)
(***************************************************************************)
\* decodeURIComponent throws URIError on a malformed escape (lines 123, 144).
DecodeThrows(s) == s \in {"%", "%zz"}
DecodeURIComponent(s) ==
    CASE s = "v%31" -> "v1"
      [] s = "abc%20" -> "abc "
      [] OTHER -> s

\* The avatar providers registered in the service container, in order, and
\* IAvatarProvider.supported (used on lines 107-109): each provider declares
\* the origin types it supports, two of them may support the same type, and
\* one supports "any".
Providers == <<"github", "hosted", "gravatar">>
Supported(provider, originType) ==
    \/ provider = "github" /\ originType = "github"
    \/ provider = "hosted" /\ originType \in {"github", "vsts"}
    \/ provider = "gravatar" /\ originType = "any"

\* Array.prototype.find over the providers: the first match, or "undefined".
RECURSIVE FindFrom(_, _)
FindFrom(i, originType) ==
    IF i > Len(Providers) THEN "undefined"
    ELSE IF Supported(Providers[i], originType) THEN Providers[i]
    ELSE FindFrom(i + 1, originType)
FindProvider(originType) == FindFrom(1, originType)

(***************************************************************************)
(* Errors.                                                                 *)
(***************************************************************************)
NoError == [name |-> "none", of |-> ""]
TypeError(what) == [name |-> "TypeError", of |-> what]
URIError == [name |-> "URIError", of |-> "decodeURIComponent"]
Rejection(fn) == [name |-> "Error", of |-> fn]

(***************************************************************************)
(* The members of the controller that this[message.cmd] can reach.         *)
(***************************************************************************)
Handlers ==
    {"getLogEntries", "getBranches", "getAuthors", "getCommit", "getAvatars",
     "doActionRef", "doAction", "doSomethingWithCommit", "selectCommittedFile",
     "registerState", "sendState"}
OtherMethods == {"dispose", "getWebviewPanel", "postMessageParser"}
DataMembers == {"stateRequestId", "webviewPanel"}
Members == Handlers \cup OtherMethods \cup DataMembers

\* typeof this[cmd].bind: a function has bind, a string or a plain object has
\* none (calling undefined throws), and undefined has no properties at all.
Callable(cmd) == cmd \in Handlers \cup OtherMethods

(***************************************************************************)
(* State.                                                                  *)
(***************************************************************************)
VARIABLES
    disposable,      \* this.disposable: the subscriptions recorded for release
    subs,            \* the two subscriptions, as their owners see them
    stateRequestId,  \* this.stateRequestId
    disp,            \* every call of postMessageParser made so far
    ui,              \* what reached the UI: webview.postMessage and showErrorMessage
    lastRegistered,  \* history: payload.requestId of the last registerState received
    events,          \* history: per state-change event, <<dispatch, lastRegistered then>>
    nDispose,        \* history: dispose() calls made by the owner
    executed         \* the external commands started without await that have settled

vars == <<disposable, subs, stateRequestId, disp, ui, lastRegistered, events, nDispose,
          executed>>

EmptyObject == [t |-> "object", keys |-> {}]
SomeObject == [t |-> "object", keys |-> {"x"}]

\* The message an object yields when read as an IPostMessage: {} has neither
\* cmd nor requestId nor payload.
AsMessage(obj) ==
    [cmd |-> "undefined", requestId |-> UndefinedId, payload |-> Undefined]

(***************************************************************************)
(* dispose (lines 213-215): every recorded subscription is disposed, on    *)
(* every call.  A disposed subscription delivers nothing more.             *)
(***************************************************************************)
RECURSIVE DisposeFrom(_, _, _)
DisposeFrom(list, i, s) ==
    IF i > Len(list) THEN s
    ELSE DisposeFrom(list, i + 1,
             [s EXCEPT ![list[i]] = [bound |-> FALSE, disposeCalls |-> @.disposeCalls + 1]])

DisposeOnlyFirst(list, s) == DisposeFrom(SubSeq(list, 1, 1), 1, s)
DisposeAll(list, s) == DisposeFrom(list, 1, s)

(***************************************************************************)
(* What reaches the UI.  Each entry records which call of postMessageParser *)
(* (from) produced it and whether the dispatcher or a handler posted it.   *)
(***************************************************************************)
SuccessEnvelopeRegisteredId(message, result) ==
    [requestId |-> stateRequestId, payload |-> result]
\* Lines 200-203.
SuccessEnvelope(message, result) ==
    [requestId |-> message.requestId, payload |-> result]

ErrorEnvelopeWithPayload(message, ex) ==
    [requestId |-> message.requestId, payload |-> Undefined, error |-> ex]
\* Lines 206-209.
ErrorEnvelope(message, ex) ==
    [requestId |-> message.requestId, error |-> ex]

NoOriginMessageWithId ==
    [requestId |-> UndefinedId, cmd |-> "getAvatarsResult", error |-> "No origin type found"]
\* Lines 100-103.
NoOriginMessage == [cmd |-> "getAvatarsResult", error |-> "No origin type found"]

Post(did, by, m) == [k |-> "post", from |-> did, by |-> by, msg |-> m]
Show(did, ex) == [k |-> "show", from |-> did, by |-> "dispatcher", msg |-> [value |-> ex]]

\* The try branch after the await (lines 200-203).
OnSuccess(did, message, result) ==
    <<Post(did, "dispatcher", SuccessEnvelope(message, result))>>

OnFailureNotShown(did, message, ex) ==
    <<Post(did, "dispatcher", ErrorEnvelope(message, ex))>>
\* The catch block (lines 204-210).
OnFailure(did, message, ex) ==
    <<Show(did, ex), Post(did, "dispatcher", ErrorEnvelope(message, ex))>>

(***************************************************************************)
(* The handlers up to their first await.  Each takes the controller state  *)
(* S = [disp, ui, stateRequestId, subs] and the payload, and yields the    *)
(* state after its synchronous part with the handler's position:           *)
(*   pc = "await1" / "await2": suspended at a collaborator call;           *)
(*   pc = "resume": the handler's promise is settled (ret or thrown) and   *)
(*                  the dispatcher's await has not resumed yet.            *)
(***************************************************************************)
H(S, pc, calls, ret, thrown) ==
    [S |-> S, pc |-> pc, calls |-> calls, ret |-> ret, thrown |-> thrown]

LogEntryValue(le) == [t |-> "logEntry", hash |-> le.hash, refs |-> le.refs]

getLogEntries(S, args) == H(S, "await1", <<LogQuery(args)>>, Undefined, NoError)

getBranches(S, args) == H(S, "await1", <<[fn |-> "getBranches"]>>, Undefined, NoError)

getAuthors(S, args) == H(S, "await1", <<[fn |-> "getAuthors"]>>, Undefined, NoError)

getCommit(S, args) ==
    H(S, "await1", <<[fn |-> "getCommit", hash |-> args.hash, force |-> FALSE]>>,
      Undefined, NoError)

getAvatars(S, args) == H(S, "await1", <<[fn |-> "getOriginType"]>>, Undefined, NoError)

doActionRefSkipsUnmatched(S, args) ==
    IF DecodeThrows(args.hash) THEN H(S, "resume", <<>>, Undefined, URIError)
    ELSE IF args.name \in {"removeTag", "removeBranch", "removeRemote"}
    THEN H(S, "await1",
           <<[fn |-> (CASE args.name = "removeTag" -> "removeTag"
                        [] args.name = "removeBranch" -> "removeBranch"
                        [] OTHER -> "removeRemoteBranch"),
              name |-> args.ref.name]>>, Undefined, NoError)
    ELSE H(S, "resume", <<>>, Undefined, NoError)
doActionRef(S, args) ==
    IF DecodeThrows(args.hash) THEN H(S, "resume", <<>>, Undefined, URIError)
    ELSE CASE args.name = "removeTag" ->
                H(S, "await1", <<[fn |-> "removeTag", name |-> args.ref.name]>>,
                  Undefined, NoError)
           [] args.name = "removeBranch" ->
                H(S, "await1", <<[fn |-> "removeBranch", name |-> args.ref.name]>>,
                  Undefined, NoError)
           [] args.name = "removeRemote" ->
                H(S, "await1", <<[fn |-> "removeRemoteBranch", name |-> args.ref.name]>>,
                  Undefined, NoError)
           [] OTHER ->
                H(S, "await2",
                  <<[fn |-> "getCommit", hash |-> DecodeURIComponent(args.hash),
                     force |-> TRUE]>>,
                  Undefined, NoError)

doActionPushesFirst(S, args) ==
    IF DecodeThrows(args.value) THEN H(S, "resume", <<>>, Undefined, URIError)
    ELSE H([S EXCEPT !.disp[Len(S.disp)].logEntry =
                        IF args.name \in {"newtag", "newbranch"}
                        THEN [args.logEntry EXCEPT !.refs =
                                 Append(@, [type |-> "Tag",
                                            name |-> DecodeURIComponent(args.value)])]
                        ELSE args.logEntry],
           "await1",
           <<[fn |-> (CASE args.name = "newtag" -> "createTag"
                        [] args.name = "newbranch" -> "createBranch"
                        [] args.name \in {"reset_hard", "reset_soft"} -> "reset"
                        [] OTHER -> "executeCommand")]>>, Undefined, NoError)
doAction(S, args) ==
    IF DecodeThrows(args.value) THEN H(S, "resume", <<>>, Undefined, URIError)
    ELSE CASE args.name = "newtag" ->
                H(S, "await1",
                  <<[fn |-> "createTag", name |-> DecodeURIComponent(args.value),
                     hash |-> args.logEntry.hash.full]>>, Undefined, NoError)
           [] args.name = "newbranch" ->
                H(S, "await1",
                  <<[fn |-> "createBranch", name |-> DecodeURIComponent(args.value),
                     hash |-> args.logEntry.hash.full]>>, Undefined, NoError)
           [] args.name = "reset_hard" ->
                H(S, "await1",
                  <<[fn |-> "reset", hash |-> args.logEntry.hash.full, hard |-> TRUE]>>,
                  Undefined, NoError)
           [] args.name = "reset_soft" ->
                H(S, "await1",
                  <<[fn |-> "reset", hash |-> args.logEntry.hash.full, hard |-> FALSE]>>,
                  Undefined, NoError)
           [] OTHER ->
                H(S, "await1",
                  <<[fn |-> "executeCommand", command |-> "git.commit.doSomething",
                     awaited |-> TRUE]>>, Undefined, NoError)

\* executeCommand is called and its promise dropped: the handler returns at once.
doSomethingWithCommit(S, args) ==
    H(S, "resume",
      <<[fn |-> "executeCommand", command |-> "git.commit.doSomething",
         awaited |-> FALSE]>>, Undefined, NoError)

selectCommittedFileRejects(S, args) ==
    H(S, "resume",
      <<[fn |-> "executeCommand", command |-> "git.commit.file.select",
         awaited |-> FALSE]>>, Undefined, Rejection("executeCommand"))
selectCommittedFile(S, args) ==
    H(S, "resume",
      <<[fn |-> "executeCommand", command |-> "git.commit.file.select",
         awaited |-> FALSE]>>, Undefined, NoError)

RegistrationNotWritten(S, args) == H(S, "resume", <<>>, Undefined, NoError)
KeepFirstRegistration(S, args) ==
    H([S EXCEPT !.stateRequestId = IF @ = "" THEN args.requestId ELSE @],
      "resume", <<>>, Undefined, NoError)
registerState(S, args) ==
    H([S EXCEPT !.stateRequestId = args.requestId], "resume", <<>>, Undefined, NoError)

sendStateClearsSlot(S, args) ==
    H([S EXCEPT !.stateRequestId = ""], "resume", <<>>, args, NoError)
sendState(S, args) == H(S, "resume", <<>>, args, NoError)

\* this.dispose reached as a command: subscriptions are released, undefined returned.
dispose(S, args) ==
    H([S EXCEPT !.subs = DisposeAll(S.disposable, @)], "resume", <<>>, Undefined, NoError)

getWebviewPanel(S, args) == H(S, "resume", <<>>, [t |-> "webviewPanel"], NoError)

(***************************************************************************)
(* postMessageParser (lines 197-211) up to its await.                      *)
(***************************************************************************)
\* The object payload.logEntry: the handler and the caller hold the same object,
\* so what doAction pushes onto its refs (lines 156, 160) shows here, while
\* payload keeps the envelope as it arrived.
ArgsLogEntry(payload) ==
    IF "logEntry" \in DOMAIN payload THEN payload.logEntry ELSE Undefined

NewDispatch(message, origin) ==
    [cmd |-> message.cmd, requestId |-> message.requestId, payload |-> message.payload,
     origin |-> origin, pc |-> "running", calls |-> <<>>, ret |-> Undefined,
     thrown |-> NoError, settled |-> "pending", invocations |-> 0,
     originType |-> "unknown", logEntry |-> ArgsLogEntry(message.payload)]

RECURSIVE PostMessageParser(_, _, _)

\* this[message.cmd].bind(this)(message.payload) for a callable member.
Invoke(S, cmd, args) ==
    CASE cmd = "getLogEntries" -> getLogEntries(S, args)
      [] cmd = "getBranches" -> getBranches(S, args)
      [] cmd = "getAuthors" -> getAuthors(S, args)
      [] cmd = "getCommit" -> getCommit(S, args)
      [] cmd = "getAvatars" -> getAvatars(S, args)
      [] cmd = "doActionRef" -> doActionRef(S, args)
      [] cmd = "doAction" -> doAction(S, args)
      [] cmd = "doSomethingWithCommit" -> doSomethingWithCommit(S, args)
      [] cmd = "selectCommittedFile" -> selectCommittedFile(S, args)
      [] cmd = "registerState" -> registerState(S, args)
      [] cmd = "sendState" -> sendState(S, args)
      [] cmd = "dispose" -> dispose(S, args)
      [] cmd = "getWebviewPanel" -> getWebviewPanel(S, args)
      [] cmd = "postMessageParser" ->
           H(PostMessageParser(S, AsMessage(args), "nested"), "resume", <<>>,
             Undefined, NoError)

PostMessageParser(S, message, origin) ==
    LET did == Len(S.disp) + 1
        d0 == NewDispatch(message, origin)
    IN  IF ~Callable(message.cmd)
        THEN \* the lookup throws inside the try: the catch block runs at once
             LET ex == TypeError(message.cmd)
             IN  [S EXCEPT
                    !.disp = Append(@, [d0 EXCEPT !.pc = "done", !.thrown = ex,
                                                  !.settled = "resolved"]),
                    !.ui = @ \o OnFailure(did, message, ex)]
        ELSE LET S1 == [S EXCEPT !.disp = Append(@, d0)]
                 h == Invoke(S1, message.cmd, message.payload)
             IN  [h.S EXCEPT
                    !.disp[did] = [@ EXCEPT !.pc = h.pc, !.calls = h.calls,
                                            !.ret = h.ret, !.thrown = h.thrown,
                                            !.invocations = 1]]

(***************************************************************************)
(* The continuations.  An await resumes with an outcome o of the awaited   *)
(* collaborator call: "fail" (it rejected) or a value.  Continue yields    *)
(* the handler's next position, or pc = "done" with its return value or    *)
(* the value it threw, and what the handler itself posted to the UI.       *)
(***************************************************************************)
K(d, pc, call, ret, thrown, originType, posts) ==
    [pc |-> pc, calls |-> d.calls \o call, ret |-> ret, thrown |-> thrown,
     originType |-> originType, posts |-> posts, logEntry |-> d.logEntry]

LastCall(d) == d.calls[Len(d.calls)]

PushRefAsHead(logEntry, name, value) ==
    IF name \in {"newtag", "newbranch"}
    THEN [logEntry EXCEPT !.refs = Append(@, [type |-> "Head", name |-> value])]
    ELSE logEntry
\* Lines 156 and 160: logEntry.refs.push(...), after the creation call resolved.
PushRef(logEntry, name, value) ==
    CASE name = "newtag" ->
           [logEntry EXCEPT !.refs = Append(@, [type |-> "Tag", name |-> value])]
      [] name = "newbranch" ->
           [logEntry EXCEPT !.refs = Append(@, [type |-> "Head", name |-> value])]
      [] OTHER -> logEntry

GenericProviderOnly(originType) == FindProvider("any")
\* Lines 107-117: the provider whose getAvatars is called.
ChosenProvider(originType) ==
    LET provider == FindProvider(originType)
        genericProvider == FindProvider("any")
    IN  IF provider # "undefined" THEN provider ELSE genericProvider

AfterAwait1(did, d, o) ==
    CASE d.cmd = "getLogEntries" ->
           K(d, "done", <<>>, LogResult("entries", d.payload), NoError, d.originType, <<>>)
      [] d.cmd = "getBranches" ->
           K(d, "done", <<>>, [t |-> "branches"], NoError, d.originType, <<>>)
      [] d.cmd = "getAuthors" ->
           K(d, "done", <<>>, [t |-> "authors"], NoError, d.originType, <<>>)
      [] d.cmd = "getCommit" ->
           K(d, "done", <<[fn |-> "viewCommitTree", hash |-> d.payload.hash]>>,
             [t |-> "commit", hash |-> d.payload.hash, forced |-> FALSE],
             NoError, d.originType, <<>>)
      [] d.cmd = "getAvatars" ->
           IF o = "none"
           THEN K(d, "done", <<>>, Undefined, NoError, o,
                  <<Post(did, "handler", NoOriginMessage)>>)
           ELSE K(d, "await2", <<[fn |-> "getAvatars", provider |-> ChosenProvider(o)]>>,
                  Undefined, NoError, o, <<>>)
      [] d.cmd = "doActionRef" ->
           K(d, "await2",
             <<[fn |-> "getCommit", hash |-> DecodeURIComponent(d.payload.hash),
                force |-> TRUE]>>, Undefined, NoError, d.originType, <<>>)
      [] d.cmd = "doAction" ->
           LET logEntry == PushRef(d.logEntry, d.payload.name,
                                   DecodeURIComponent(d.payload.value))
           IN  [K(d, "done", <<>>, LogEntryValue(logEntry), NoError, d.originType, <<>>)
                  EXCEPT !.logEntry = logEntry]

AfterAwait2(did, d, o) ==
    CASE d.cmd = "getAvatars" ->
           K(d, "done", <<>>, [t |-> "avatars", provider |-> LastCall(d).provider],
             NoError, d.originType, <<>>)
      [] d.cmd = "doActionRef" ->
           K(d, "done", <<>>,
             [t |-> "commit", hash |-> LastCall(d).hash, forced |-> LastCall(d).force],
             NoError, d.originType, <<>>)

Continue(did, d, o) ==
    CASE d.pc = "resume" -> K(d, "done", <<>>, d.ret, d.thrown, d.originType, <<>>)
      [] d.pc \in {"await1", "await2"} /\ o = "fail" ->
           K(d, "done", <<>>, Undefined, Rejection(LastCall(d).fn), d.originType, <<>>)
      [] d.pc = "await1" /\ o # "fail" -> AfterAwait1(did, d, o)
      [] d.pc = "await2" /\ o # "fail" -> AfterAwait2(did, d, o)

\* The outcomes the awaited call can have.
Outcomes(d) ==
    CASE d.pc = "resume" -> {"settled"}
      [] d.pc = "await1" /\ d.cmd = "getAvatars" ->
           {"fail", "none", "github", "vsts", "bitbucket"}
      [] OTHER -> {"fail", "ok"}

OutboundRethrown(did, d, h) ==
    IF h.thrown = NoError THEN OnSuccess(did, d, h.ret) ELSE <<>>
\* postMessageParser after its await: lines 200-203, or the catch block.
Outbound(did, d, h) ==
    IF h.thrown = NoError
    THEN OnSuccess(did, d, h.ret)
    ELSE OnFailure(did, d, h.thrown)

(***************************************************************************)
(* Inputs.                                                                 *)
(***************************************************************************)
ReqIds == <<"r1", "r2", "r3", "r4">>
RegIds == {"r1", "s1"}

Commands == Members \cup {"noSuchCommand"}

NoLogArgs ==
    [startIndex |-> Undefined, stopIndex |-> Undefined, searchText |-> Undefined,
     line |-> Undefined, authorFilter |-> Undefined, branchName |-> Undefined,
     file |-> Undefined]

LogEntry0 == [hash |-> [full |-> "abc"], refs |-> <<[type |-> "Head", name |-> "main"]>>]

PayloadsOf(cmd) ==
    CASE cmd = "getLogEntries" -> {NoLogArgs}
      [] cmd = "getCommit" -> {[hash |-> "abc"]}
      [] cmd = "doActionRef" ->
           {[name |-> n, hash |-> "abc%20", ref |-> [type |-> "Tag", name |-> "v0"]] :
               n \in {"removeTag", "checkout"}}
           \cup {[name |-> "removeTag", hash |-> "%", ref |-> [type |-> "Tag", name |-> "v0"]]}
      [] cmd = "doAction" ->
           {[name |-> n, value |-> "v%31", logEntry |-> LogEntry0] :
               n \in {"newtag", "cherry_pick"}}
      [] cmd = "doSomethingWithCommit" -> {[logEntry |-> LogEntry0]}
      [] cmd = "selectCommittedFile" ->
           {[logEntry |-> LogEntry0, committedFile |-> "a.txt"]}
      [] cmd = "registerState" -> {[requestId |-> r] : r \in RegIds}
      [] cmd = "sendState" -> {SomeObject}
      [] OTHER -> {EmptyObject}

(***************************************************************************)
(* Actions.                                                                *)
(***************************************************************************)
Controller == [disposable |-> disposable, subs |-> subs,
               stateRequestId |-> stateRequestId, disp |-> disp, ui |-> ui]

Becomes(S) ==
    /\ subs' = S.subs
    /\ stateRequestId' = S.stateRequestId
    /\ disp' = S.disp
    /\ ui' = S.ui
    /\ disposable' = S.disposable

Inbound == {i \in 1..Len(disp) : disp[i].origin = "ui"}

\* The UI puts a fresh request id on each envelope (the ids are opaque to the
\* controller); the id it registers for state changes may be one of them.
NextIds == {ReqIds[Cardinality(Inbound) + 1]}

\* Construction (lines 13, 16, 31-42): both subscriptions bound and recorded.
Init ==
    /\ disposable = <<"channel", "state">>
    /\ subs = [n \in {"channel", "state"} |-> [bound |-> TRUE, disposeCalls |-> 0]]
    /\ stateRequestId = ""
    /\ disp = <<>>
    /\ ui = <<>>
    /\ lastRegistered = ""
    /\ events = <<>>
    /\ nDispose = 0
    /\ executed = {}

\* The channel delivers an envelope to the listener bound on line 31.
Deliver(cmd, rid, payload) ==
    /\ subs["channel"].bound
    /\ Becomes(PostMessageParser(Controller,
                   [cmd |-> cmd, requestId |-> rid, payload |-> payload], "ui"))
    /\ lastRegistered' = IF cmd = "registerState" THEN payload.requestId ELSE lastRegistered
    /\ UNCHANGED <<events, nDispose, executed>>

Receive ==
    /\ Cardinality(Inbound) < MaxInbound
    /\ Cardinality(Inbound) < Len(ReqIds)
    /\ \E cmd \in Commands, rid \in NextIds :
         \E payload \in PayloadsOf(cmd) : Deliver(cmd, rid, payload)

\* The backing service fires onStateChanged: the callback of lines 33-39.
StateChanged ==
    /\ subs["state"].bound
    /\ Len(events) < MaxEvents
    /\ Becomes(PostMessageParser(Controller,
                   [cmd |-> "sendState", requestId |-> stateRequestId,
                    payload |-> EmptyObject], "state"))
    /\ events' = Append(events, <<Len(disp) + 1, lastRegistered>>)
    /\ UNCHANGED <<lastRegistered, nDispose, executed>>

\* A suspended call of postMessageParser, or its handler, resumes.
Step(did) ==
    /\ did \in 1..Len(disp)
    /\ disp[did].pc # "done"
    /\ \E o \in Outcomes(disp[did]) :
         LET d == disp[did]
             h == Continue(did, d, o)
         IN  /\ disp' = [disp EXCEPT ![did] =
                           [@ EXCEPT !.pc = h.pc, !.calls = h.calls, !.ret = h.ret,
                                     !.thrown = h.thrown, !.originType = h.originType,
                                     !.logEntry = h.logEntry,
                                     !.settled = IF h.pc = "done" THEN "resolved" ELSE @]]
             /\ ui' = ui \o h.posts \o (IF h.pc = "done" THEN Outbound(did, d, h) ELSE <<>>)
    /\ UNCHANGED <<disposable, subs, stateRequestId, lastRegistered, events, nDispose,
                   executed>>

Resume == \E did \in 1..Len(disp) : Step(did)

\* The owner calls dispose() (lines 213-215).
Dispose ==
    /\ nDispose < MaxDispose
    /\ subs' = DisposeAll(disposable, subs)
    /\ nDispose' = nDispose + 1
    /\ UNCHANGED <<disposable, stateRequestId, disp, ui, lastRegistered, events, executed>>

Next == Receive \/ StateChanged \/ Resume \/ Dispose

Spec == Init /\ [][Next]_vars

(***************************************************************************)
(* getLogEntries alone, over payloads that exercise the normalisation.     *)
(***************************************************************************)
Digits(a) == Str(<<a>>)

LogPayloads ==
    {[NoLogArgs EXCEPT !.startIndex = a, !.stopIndex = b, !.searchText = c, !.line = l] :
        a \in {Undefined, Num(0), Num(5), Digits("7"), Str(<<"a", "b", "c">>)},
        b \in {Undefined, Num(0), Num(50), Str(<<"1", "2">>), Str(<<"x", "9">>)},
        c \in {Undefined, Str(<<>>), Str(<<"f", "i", "x">>)},
        l \in {Undefined, Str(<<"3">>), Str(<<"l", "1">>)}}

ReceiveLog ==
    /\ Cardinality(Inbound) < MaxLogInbound
    /\ Cardinality(Inbound) < Len(ReqIds)
    /\ \E rid \in NextIds, payload \in LogPayloads :
         Deliver("getLogEntries", rid, payload)

NextLog == ReceiveLog \/ Resume

SpecLog == Init /\ [][NextLog]_vars

(***************************************************************************)
(* The commands that act on a commit or a ref, over every action name and  *)
(* over values and hashes with and without percent escapes.  An external   *)
(* command started without await (lines 176, 183) settles on its own; the  *)
(* controller holds no reference to its promise.                           *)
(***************************************************************************)
ActionCommands == {"doAction", "doActionRef", "doSomethingWithCommit", "selectCommittedFile"}

ActionNames == {"newtag", "newbranch", "reset_hard", "reset_soft", "cherry_pick", "removeTag"}
RefActionNames == {"removeTag", "removeBranch", "removeRemote", "checkout", "newtag"}

LogEntry1 == [hash |-> [full |-> "def"], refs |-> <<>>]

ActionPayloadsOf(cmd) ==
    CASE cmd = "doAction" ->
           {[name |-> n, value |-> v, logEntry |-> le] :
               n \in ActionNames, v \in {"v%31", "dev", "%"}, le \in {LogEntry0, LogEntry1}}
      [] cmd = "doActionRef" ->
           {[name |-> n, hash |-> h, ref |-> r] :
               n \in RefActionNames, h \in {"abc%20", "abc", "%zz"},
               r \in {[type |-> "Tag", name |-> "v0"], [type |-> "Head", name |-> "dev"]}}
      [] OTHER -> PayloadsOf(cmd)

ReceiveAction ==
    /\ Cardinality(Inbound) < MaxActionInbound
    /\ Cardinality(Inbound) < Len(ReqIds)
    /\ \E cmd \in ActionCommands, rid \in NextIds :
         \E payload \in ActionPayloadsOf(cmd) : Deliver(cmd, rid, payload)

\* The dispatches whose handler started an external command and dropped its promise.
NotAwaited ==
    {did \in 1..Len(disp) :
        \E i \in 1..Len(disp[did].calls) :
            /\ disp[did].calls[i].fn = "executeCommand"
            /\ ~disp[did].calls[i].awaited}

\* Such a command resolves or rejects; uiLen records how much had reached the
\* UI by then.
ExecuteCommandSettles ==
    /\ \E did \in NotAwaited, o \in {"resolved", "rejected"} :
         /\ \A e \in executed : e.from # did
         /\ executed' = executed \cup {[from |-> did, outcome |-> o, uiLen |-> Len(ui)]}
    /\ UNCHANGED <<disposable, subs, stateRequestId, disp, ui, lastRegistered, events,
                   nDispose>>

NextAction == ReceiveAction \/ Resume \/ ExecuteCommandSettles

SpecAction == Init /\ [][NextAction]_vars

(***************************************************************************)
(* Fairness: the event loop runs every continuation whose awaited promise  *)
(* has settled, and every awaited collaborator call settles.               *)
(***************************************************************************)
MaxDispatches == 2 * MaxInbound + MaxEvents

FairSpec == Spec /\ WF_vars(Resume)

(***************************************************************************)
(* Vocabulary of the properties.                                           *)
(***************************************************************************)
Dispatches == 1..Len(disp)
Done(d) == disp[d].pc = "done"
Failed(d) == Done(d) /\ disp[d].thrown # NoError

\* Positions in ui of the envelopes the dispatcher posted for dispatch d.
Posts(d) == {i \in 1..Len(ui) : ui[i].k = "post" /\ ui[i].by = "dispatcher" /\ ui[i].from = d}
Shows(d) == {i \in 1..Len(ui) : ui[i].k = "show" /\ ui[i].from = d}
DispatcherPosts == {i \in 1..Len(ui) : ui[i].k = "post" /\ ui[i].by = "dispatcher"}

\* Positions in ui of the messages the handler of dispatch d posted itself.
HandlerPosts(d) == {i \in 1..Len(ui) : ui[i].k = "post" /\ ui[i].by = "handler" /\ ui[i].from = d}

HasPayload(m) == "payload" \in DOMAIN m
HasError(m) == "error" \in DOMAIN m

\* The dispatcher's envelopes that carry request id r, and whether dispatch d
\* is the only one with its request id.
WithRequestId(r) == {i \in DispatcherPosts : ui[i].msg.requestId = r}
UniqueId(d) == \A e \in Dispatches : e # d => disp[e].requestId # disp[d].requestId

\* Dispatch d has been answered with an envelope for its request id.
Answered(d) ==
    /\ d \in Dispatches
    /\ \E i \in Posts(d) : ui[i].msg.requestId = disp[d].requestId

\* dispose() has run to its end: called by the owner, or reached as a command.
DisposeReturned == nDispose >= 1 \/ \E d \in Dispatches : disp[d].cmd = "dispose"

\* The calls doActionRef made for dispatch d: mutations of a ref, and forced
\* re-fetches of the commit; the mutation its action name selects.
RefMutations(d) ==
    {i \in 1..Len(disp[d].calls) :
        disp[d].calls[i].fn \in {"removeTag", "removeBranch", "removeRemoteBranch"}}
Refetches(d) ==
    {i \in 1..Len(disp[d].calls) :
        disp[d].calls[i].fn = "getCommit" /\ disp[d].calls[i].force}
SelectedMutation(name) ==
    CASE name = "removeTag" -> "removeTag"
      [] name = "removeBranch" -> "removeBranch"
      [] name = "removeRemote" -> "removeRemoteBranch"
      [] OTHER -> "none"

\* At most one mutation, the one the name selects, applied to ref.name and
\* made first; a re-fetch only once the mutation is no longer pending, and
\* for the decoded hash.
MutationThenRefetch(d) ==
    LET args == disp[d].payload
        calls == disp[d].calls
    IN  /\ Cardinality(RefMutations(d)) <= 1
        /\ SelectedMutation(args.name) = "none" => RefMutations(d) = {}
        /\ \A i \in RefMutations(d) :
             /\ i = 1
             /\ calls[i] = [fn |-> SelectedMutation(args.name), name |-> args.ref.name]
        /\ disp[d].pc = "await1" => Refetches(d) = {}
        /\ Cardinality(Refetches(d)) <= 1
        /\ \A i \in Refetches(d) :
             /\ i = Len(calls) /\ \A j \in RefMutations(d) : j < i
             /\ calls[i].hash = DecodeURIComponent(args.hash)
             /\ disp[d].pc \in {"await2", "done"}

\* The commit that the re-fetch of dispatch d yields.
Refetched(d) ==
    [t |-> "commit", hash |-> DecodeURIComponent(disp[d].payload.hash), forced |-> TRUE]

\* The integer a bound stands for: a number, or a string of decimal digits.
IsInteger(v) ==
    \/ v.t = "number"
    \/ v.t = "string" /\ v.s # <<>> /\ \A i \in 1..Len(v.s) : DigitValue(v.s[i]) < 10
IntegerValue(v) == IF v.t = "number" THEN v ELSE Num(DigitPrefix(v.s, 10, 0, 0)[1])

\* A non-empty string from which parseInt reads no number.
Malformed(v) == v.t = "string" /\ v.s # <<>> /\ ParseIntString(v.s, 10) = NaN

(***************************************************************************)
(* C1.  Every envelope the dispatcher posts carries the requestId of the   *)
(* envelope whose dispatch produced it; a dispatch posts no envelope while *)
(* it is in flight and exactly one once it has finished, whatever the      *)
(* order in which the dispatches finish; so a request id used by one       *)
(* dispatch only is on exactly one dispatcher envelope once that dispatch  *)
(* has finished, and on none before.                                       *)
(***************************************************************************)
C1_RequestIdEchoed ==
    /\ \A i \in DispatcherPosts : ui[i].msg.requestId = disp[ui[i].from].requestId
    /\ \A d \in Dispatches :
         /\ Cardinality(Posts(d)) = (IF Done(d) THEN 1 ELSE 0)
         /\ UniqueId(d) =>
              Cardinality(WithRequestId(disp[d].requestId)) = (IF Done(d) THEN 1 ELSE 0)

\* Two commands with distinct ids, answered in the reverse of their arrival
\* order, one with a payload and one with an error.
C1_Witness ==
    \E a \in Inbound, b \in Inbound :
      /\ a < b /\ Done(a) /\ Done(b)
      /\ disp[a].requestId # disp[b].requestId
      /\ disp[a].cmd \in Handlers /\ disp[b].cmd \in Handlers
      /\ \E i \in Posts(a), j \in Posts(b) :
           j < i /\ HasPayload(ui[i].msg) /\ HasError(ui[j].msg)

(***************************************************************************)
(* C2.  A command name that is not a key of the command table is answered  *)
(* with one error envelope and no payload envelope, and the dispatch does  *)
(* not reject.                                                             *)
(***************************************************************************)
C2_UnknownCommandIsError ==
    \A d \in Dispatches :
      (disp[d].origin = "ui" /\ disp[d].cmd \notin Handlers) =>
        /\ \A i \in Posts(d) : HasError(ui[i].msg) /\ ~HasPayload(ui[i].msg)
        /\ Done(d) => (Cardinality(Posts(d)) = 1 /\ disp[d].settled = "resolved")

(***************************************************************************)
(* C3.  When the handler of a table command throws or rejects, the         *)
(* dispatcher calls showErrorMessage once with the failure value, then     *)
(* posts one envelope {requestId, error} with that same value; it posts no *)
(* payload envelope, has invoked the handler once, and its own promise     *)
(* resolves.                                                               *)
(***************************************************************************)
C3_FailureShownThenPosted ==
    \A d \in Dispatches :
      (disp[d].cmd \in Handlers /\ disp[d].thrown # NoError) =>
        /\ disp[d].invocations = 1
        /\ ~Done(d) => (Shows(d) = {} /\ Posts(d) = {})
        /\ Done(d) =>
             /\ disp[d].settled = "resolved"
             /\ \E i \in 1..(Len(ui) - 1) :
                  /\ Shows(d) = {i} /\ Posts(d) = {i + 1}
                  /\ ui[i].msg.value = disp[d].thrown
                  /\ ui[i + 1].msg = [requestId |-> disp[d].requestId,
                                     error |-> disp[d].thrown]

\* A handler that rejected at an await and one that threw before any await
\* have both been answered.
C3_Witness ==
    \E a \in Dispatches, b \in Dispatches :
      /\ disp[a].cmd \in Handlers /\ Failed(a) /\ disp[a].thrown.name = "Error"
      /\ disp[b].cmd \in Handlers /\ Failed(b) /\ disp[b].thrown.name = "URIError"

(***************************************************************************)
(* C4.  Every envelope the dispatcher posts has exactly one of the keys    *)
(* payload and error, the answers to handlers that return nothing         *)
(* included (their payload key holds undefined).                           *)
(***************************************************************************)
C4_ExactlyOneOfPayloadError ==
    \A i \in DispatcherPosts : HasPayload(ui[i].msg) # HasError(ui[i].msg)

\* The answers to registerState and to getAvatars without an origin type.
C4_Witness ==
    \E a \in Dispatches, b \in Dispatches :
      /\ disp[a].cmd = "registerState" /\ disp[b].cmd = "getAvatars"
      /\ disp[b].originType = "none"
      /\ \E i \in Posts(a), j \in Posts(b) :
           /\ HasPayload(ui[i].msg) /\ ui[i].msg.payload.t = "undefined"
           /\ HasPayload(ui[j].msg) /\ ui[j].msg.payload.t = "undefined"

(***************************************************************************)
(* C5.  Each state-change event starts one sendState dispatch whose        *)
(* requestId is the payload.requestId of the last registerState received   *)
(* before the event (the empty string if there was none), and that         *)
(* dispatch yields exactly one envelope {requestId, payload: {}}.          *)
(***************************************************************************)
C5_StateCarriesLastRegistered ==
    /\ Len(events) = Cardinality({d \in Dispatches : disp[d].origin = "state"})
    /\ \A e \in 1..Len(events) :
         LET d == events[e][1]
             r == events[e][2]
         IN  /\ d \in Dispatches /\ disp[d].origin = "state"
             /\ disp[d].cmd = "sendState" /\ disp[d].requestId = r
             /\ \A i \in Posts(d) : ui[i].msg = [requestId |-> r, payload |-> EmptyObject]
             /\ Cardinality(Posts(d)) = (IF Done(d) THEN 1 ELSE 0)

\* registerState(r1), registerState(s1), then an event answered with s1.
C5_Witness ==
    \E a \in Dispatches, b \in Dispatches, e \in 1..Len(events) :
      /\ a < b /\ b < events[e][1]
      /\ disp[a].cmd = "registerState" /\ disp[a].payload.requestId = "r1"
      /\ disp[b].cmd = "registerState" /\ disp[b].payload.requestId = "s1"
      /\ \E i \in Posts(events[e][1]) : ui[i].msg.requestId = "s1"

(***************************************************************************)
(* C6.  Over any number of dispose() calls by the owner, each of the two   *)
(* subscriptions has its own dispose invoked exactly once in total.        *)
(***************************************************************************)
C6_SubscriptionsDisposedOnce ==
    (nDispose >= 1 /\ \A d \in Dispatches : disp[d].cmd # "dispose") =>
        \A n \in DOMAIN subs : subs[n].disposeCalls = 1

(***************************************************************************)
(* C7.  Construction binds and records both subscriptions, and once the    *)
(* owner's dispose() has returned no call of postMessageParser starts.     *)
(***************************************************************************)
C7_NoDispatchAfterDispose ==
    /\ disposable = <<"channel", "state">> /\ \A n \in DOMAIN subs : subs[n].bound
    /\ [][DisposeReturned => Len(disp') = Len(disp)]_vars

\* Disposed while the UI and the backing service had more to deliver and a
\* dispatch was in flight.
C7_Witness ==
    /\ nDispose >= 1
    /\ Cardinality(Inbound) < MaxInbound /\ Len(events) < MaxEvents
    /\ \E d \in Dispatches : ~Done(d)

(***************************************************************************)
(* C8.  Every dispatch that has started eventually has an envelope for its *)
(* requestId posted by the dispatcher.                                     *)
(***************************************************************************)
C8_EveryDispatchAnswered ==
    \A d \in 1..MaxDispatches : (d \in Dispatches) ~> Answered(d)

\* A handler suspended at its second await while a later command has been
\* answered, a state-change event has been dispatched and dispose() has run.
C8_Witness ==
    \E a \in Dispatches, b \in Dispatches :
      /\ a < b /\ disp[a].pc = "await2" /\ Answered(b)
      /\ events # <<>> /\ nDispose >= 1 /\ ~subs["channel"].bound

(***************************************************************************)
(* C9.  getLogEntries passes 0 for an absent startIndex and 30 for an      *)
(* absent stopIndex, the integer value of a bound that is present, no      *)
(* filter for an empty or absent searchText and any other searchText       *)
(* unchanged, and returns the query result with the bounds it passed.      *)
(***************************************************************************)
C9_LogEntriesNormalised ==
    \A d \in Dispatches :
      disp[d].cmd = "getLogEntries" =>
        LET args == disp[d].payload
            q == disp[d].calls[1]
        IN  /\ args.startIndex = Undefined => q.startIndex = Num(0)
            /\ args.stopIndex = Undefined => q.stopIndex = Num(30)
            /\ IsInteger(args.startIndex) => q.startIndex = IntegerValue(args.startIndex)
            /\ IsInteger(args.stopIndex) => q.stopIndex = IntegerValue(args.stopIndex)
            /\ q.searchText = (IF args.searchText \in {Undefined, Str(<<>>)}
                               THEN Undefined ELSE args.searchText)
            /\ (Done(d) /\ ~Failed(d)) =>
                 /\ disp[d].ret.startIndex = q.startIndex
                 /\ disp[d].ret.stopIndex = q.stopIndex

(***************************************************************************)
(* C10.  A malformed string as startIndex, stopIndex or line makes         *)
(* getLogEntries fail before the history query is called, and the          *)
(* dispatcher answers with an error envelope after showing the error.      *)
(***************************************************************************)
C10_MalformedBoundRejected ==
    \A d \in Dispatches :
      (/\ disp[d].cmd = "getLogEntries"
       /\ \/ Malformed(disp[d].payload.startIndex)
          \/ Malformed(disp[d].payload.stopIndex)
          \/ Malformed(disp[d].payload.line)) =>
        /\ disp[d].calls = <<>>
        /\ Done(d) => (\E i \in Posts(d) : HasError(ui[i].msg) /\ i - 1 \in Shows(d))

(***************************************************************************)
(* C11.  A doAction that succeeds with name newtag (newbranch) has made    *)
(* one call, createTag (createBranch) for the decoded value and            *)
(* logEntry.hash.full, and returns the log entry with the inbound refs     *)
(* plus one entry {type: Tag (Head), name: value}; with any other name it  *)
(* returns the inbound refs and has made no createTag or createBranch      *)
(* call; a name other than newtag, newbranch, reset_hard and reset_soft    *)
(* makes one call, to the external command executor.                       *)
(***************************************************************************)
C11_DoActionEffects ==
    \A d \in Dispatches :
      disp[d].cmd = "doAction" =>
        LET args == disp[d].payload
            value == DecodeURIComponent(args.value)
            calls == disp[d].calls
            full == args.logEntry.hash.full
            created == {i \in 1..Len(calls) : calls[i].fn \in {"createTag", "createBranch"}}
            succeeded == Done(d) /\ ~Failed(d)
        IN  /\ args.name = "newtag" =>
                 /\ succeeded =>
                      /\ calls = <<[fn |-> "createTag", name |-> value, hash |-> full]>>
                      /\ disp[d].ret.refs =
                           Append(args.logEntry.refs, [type |-> "Tag", name |-> value])
            /\ args.name = "newbranch" =>
                 /\ succeeded =>
                      /\ calls = <<[fn |-> "createBranch", name |-> value, hash |-> full]>>
                      /\ disp[d].ret.refs =
                           Append(args.logEntry.refs, [type |-> "Head", name |-> value])
            /\ args.name \notin {"newtag", "newbranch"} =>
                 /\ created = {}
                 /\ succeeded => disp[d].ret.refs = args.logEntry.refs
            /\ args.name \in {"reset_hard", "reset_soft"} =>
                 \A i \in 1..Len(calls) : calls[i].fn = "reset"
            /\ args.name \notin {"newtag", "newbranch", "reset_hard", "reset_soft"} =>
                 /\ \A i \in 1..Len(calls) : calls[i].fn = "executeCommand"
                 /\ succeeded => Len(calls) = 1
            /\ succeeded =>
                 /\ disp[d].ret.t = "logEntry" /\ disp[d].ret.hash = args.logEntry.hash
                 /\ disp[d].ret.refs = disp[d].logEntry.refs

\* newtag with the value v%31 on a log entry that has one ref: the tag v1 has
\* been created and the answer carries both refs.
C11_Witness ==
    \E d \in Dispatches :
      /\ disp[d].cmd = "doAction" /\ disp[d].payload.name = "newtag"
      /\ disp[d].payload.value = "v%31" /\ Done(d) /\ ~Failed(d)
      /\ disp[d].calls = <<[fn |-> "createTag", name |-> "v1", hash |-> "abc"]>>
      /\ \E i \in Posts(d) :
           ui[i].msg.payload.refs =
             <<[type |-> "Head", name |-> "main"], [type |-> "Tag", name |-> "v1"]>>

(***************************************************************************)
(* C12.  Once getAvatars has resolved an origin type t, it calls           *)
(* getAvatars on exactly one provider: the first provider of the set whose *)
(* supported(t) is true, or, when there is none, the provider that         *)
(* supports "any"; the "any" provider is not called when another provider  *)
(* supports t; and on success it returns the list of the provider called.  *)
(***************************************************************************)
C12_OneProviderQueried ==
    \A d \in Dispatches :
      (disp[d].cmd = "getAvatars" /\ disp[d].originType \notin {"unknown", "none"}) =>
        LET t == disp[d].originType
            calls == disp[d].calls
            lookups == {i \in 1..Len(calls) : calls[i].fn = "getAvatars"}
            supporting == {i \in 1..Len(Providers) : Supported(Providers[i], t)}
            first == CHOOSE i \in supporting : \A j \in supporting : i <= j
            generic == CHOOSE p \in {Providers[i] : i \in 1..Len(Providers)} :
                          Supported(p, "any")
            expected == IF supporting # {} THEN Providers[first] ELSE generic
        IN  /\ Cardinality(lookups) = 1
            /\ \A i \in lookups : calls[i].provider = expected
            /\ (supporting # {} /\ expected # generic) =>
                 \A i \in lookups : calls[i].provider # generic
            /\ (Done(d) /\ ~Failed(d)) =>
                 disp[d].ret = [t |-> "avatars", provider |-> expected]

\* One lookup for an origin type that two providers support, answered by the
\* first of them, and one for a type that none supports, answered by the
\* provider that supports "any".
C12_Witness ==
    \E a \in Dispatches, b \in Dispatches :
      /\ disp[a].cmd = "getAvatars" /\ disp[a].originType = "github"
      /\ \E i \in Posts(a) :
           HasPayload(ui[i].msg) /\ ui[i].msg.payload = [t |-> "avatars", provider |-> "github"]
      /\ disp[b].cmd = "getAvatars" /\ disp[b].originType = "bitbucket"
      /\ \E i \in Posts(b) :
           HasPayload(ui[i].msg) /\ ui[i].msg.payload = [t |-> "avatars", provider |-> "gravatar"]

(***************************************************************************)
(* C13, as stated.  Every doActionRef call that has finished has           *)
(* re-fetched the commit with forced refresh, whatever its action name,    *)
(* and returns it unless the re-fetch itself failed; it has called at most *)
(* one of removeTag, removeBranch and removeRemoteBranch, the one its name *)
(* selects, on ref.name, and the re-fetch started after that call          *)
(* completed.                                                              *)
(***************************************************************************)
C13_AlwaysRefetches ==
    \A d \in Dispatches :
      disp[d].cmd = "doActionRef" =>
        /\ MutationThenRefetch(d)
        /\ Done(d) =>
             /\ Refetches(d) # {}
             /\ ~Failed(d) => disp[d].ret = Refetched(d)

(***************************************************************************)
(* C13, amended.  A doActionRef call whose hash decodes and whose selected *)
(* mutation, if any, resolves re-fetches the commit with forced refresh    *)
(* after the mutation and returns it, whatever its action name; when the   *)
(* hash does not decode no call is made, and when the mutation rejects no  *)
(* re-fetch is made, and the call fails with that error.  At most one of   *)
(* removeTag, removeBranch and removeRemoteBranch is called, the one the   *)
(* name selects, on ref.name.                                              *)
(***************************************************************************)
C13_RefetchesUnlessFailed ==
    \A d \in Dispatches :
      disp[d].cmd = "doActionRef" =>
        LET args == disp[d].payload
            selected == SelectedMutation(args.name)
        IN  /\ MutationThenRefetch(d)
            /\ DecodeThrows(args.hash) =>
                 disp[d].calls = <<>> /\ disp[d].thrown = URIError
            /\ (~DecodeThrows(args.hash) /\ selected # "none") => RefMutations(d) = {1}
            /\ (Done(d) /\ ~DecodeThrows(args.hash)) =>
                 IF selected # "none" /\ disp[d].thrown = Rejection(selected)
                 THEN Refetches(d) = {}
                 ELSE /\ Refetches(d) # {}
                      /\ IF Failed(d)
                         THEN disp[d].thrown = Rejection("getCommit")
                         ELSE disp[d].ret = Refetched(d)

\* removeRemote on the ref dev with the hash abc%20: removeRemoteBranch(dev)
\* resolved, then the commit "abc " was re-fetched and is the answer.
C13_Witness ==
    \E d \in Dispatches :
      /\ disp[d].cmd = "doActionRef" /\ disp[d].payload.name = "removeRemote"
      /\ disp[d].payload.hash = "abc%20" /\ Done(d) /\ ~Failed(d)
      /\ disp[d].calls = <<[fn |-> "removeRemoteBranch", name |-> "dev"],
                           [fn |-> "getCommit", hash |-> "abc ", force |-> TRUE]>>
      /\ \E i \in Posts(d) : ui[i].msg.payload = Refetched(d)

(***************************************************************************)
(* C14.  The slot always holds the requestId of the last registerState     *)
(* received, whatever commands are in flight; the dispatch that a          *)
(* state-change event starts takes the value the slot has when the event   *)
(* fires; no later step, a registerState received in the meantime          *)
(* included, changes it; and the envelope posted for it carries it.        *)
(***************************************************************************)
C14_NotificationIdReadAtEvent ==
    /\ [](stateRequestId = lastRegistered)
    /\ [](\A e \in 1..Len(events) :
            \A i \in Posts(events[e][1]) : ui[i].msg.requestId = events[e][2])
    /\ [][/\ Len(events') > Len(events) =>
               /\ events'[Len(events')] = <<Len(disp'), stateRequestId>>
               /\ disp'[Len(disp')].requestId = stateRequestId
           /\ \A e \in 1..Len(events) :
               disp'[events[e][1]].requestId = disp[events[e][1]].requestId]_vars

\* registerState(r1), an event, then registerState(s1) received and answered
\* before the notification is posted: the notification carries r1 while the
\* slot holds s1.
C14_Witness ==
    \E e \in 1..Len(events), b \in Inbound :
      /\ events[e][2] = "r1" /\ b > events[e][1]
      /\ disp[b].cmd = "registerState" /\ disp[b].payload.requestId = "s1"
      /\ stateRequestId = "s1"
      /\ \E i \in Posts(events[e][1]), j \in Posts(b) :
           j < i /\ ui[i].msg.requestId = "r1"

(***************************************************************************)
(* C15.  The slot is empty at construction, and a step changes it only by  *)
(* receiving a registerState envelope, to the requestId of that            *)
(* envelope's payload: no other command, whether it succeeds or fails, no  *)
(* continuation, no state-change event and no dispose() changes it, so it  *)
(* does not go back to the empty value unless a registerState supplies it. *)
(***************************************************************************)
C15_SlotWrittenOnlyByRegisterState ==
    /\ stateRequestId = ""
    /\ [][stateRequestId' # stateRequestId =>
             /\ Len(disp') = Len(disp) + 1 /\ nDispose' = nDispose /\ events' = events
             /\ disp'[Len(disp')].cmd = "registerState"
             /\ disp'[Len(disp')].payload.requestId = stateRequestId']_vars

\* The slot still holds s1 after a command failed, a state-change event was
\* answered and dispose() ran, all of them after the registration.
C15_Witness ==
    \E a \in Inbound, b \in Inbound, e \in 1..Len(events) :
      /\ disp[a].cmd = "registerState" /\ disp[a].payload.requestId = "s1"
      /\ a < b /\ a < events[e][1] /\ Failed(b) /\ Done(events[e][1])
      /\ nDispose >= 1 /\ ~subs["channel"].bound
      /\ stateRequestId = "s1"

(***************************************************************************)
(* C16.  A getAvatars dispatch whose origin type resolved to none has      *)
(* queried no provider and has put exactly two messages on the UI          *)
(* transport: first {cmd: 'getAvatarsResult', error: 'No origin type       *)
(* found'} without a requestId, then the dispatcher's envelope             *)
(* {requestId, payload: undefined} for the inbound requestId; it has       *)
(* posted no error envelope and has not called showErrorMessage.           *)
(***************************************************************************)
C16_NoOriginTwoMessages ==
    \A d \in Dispatches :
      (disp[d].cmd = "getAvatars" /\ disp[d].originType = "none") =>
        /\ disp[d].calls = <<[fn |-> "getOriginType"]>>
        /\ Shows(d) = {}
        /\ Cardinality({i \in 1..Len(ui) : ui[i].from = d}) = 2
        /\ \E i \in HandlerPosts(d), j \in Posts(d) :
             /\ i < j
             /\ ui[i].msg = [cmd |-> "getAvatarsResult", error |-> "No origin type found"]
             /\ "requestId" \notin DOMAIN ui[i].msg
             /\ ui[j].msg = [requestId |-> disp[d].requestId, payload |-> Undefined]
             /\ ~HasError(ui[j].msg)

\* getAvatars answered for an origin type of none while another command had
\* been received before it and was still in flight.
C16_Witness ==
    \E a \in Inbound, d \in Inbound :
      /\ a < d /\ ~Done(a)
      /\ disp[d].cmd = "getAvatars" /\ disp[d].originType = "none"
      /\ disp[d].requestId = "r2" /\ HandlerPosts(d) # {} /\ Posts(d) # {}

(***************************************************************************)
(* C17.  While the createTag or createBranch call of a doAction is         *)
(* pending, and after it has failed, the refs of the log entry are the     *)
(* inbound refs; a failed creation returns no log entry and is answered by *)
(* one error envelope carrying the failure, after showErrorMessage; the    *)
(* refs differ from the inbound refs only once the call has succeeded.     *)
(***************************************************************************)
C17_NoRefOnFailedCreation ==
    \A d \in Dispatches :
      (disp[d].cmd = "doAction" /\ disp[d].payload.name \in {"newtag", "newbranch"}) =>
        LET inbound == disp[d].payload.logEntry.refs
            creation == IF disp[d].payload.name = "newtag" THEN "createTag"
                        ELSE "createBranch"
        IN  /\ disp[d].pc # "done" => disp[d].logEntry.refs = inbound
            /\ disp[d].logEntry.refs # inbound => (Done(d) /\ ~Failed(d))
            /\ disp[d].thrown = Rejection(creation) =>
                 /\ disp[d].logEntry.refs = inbound
                 /\ disp[d].ret = Undefined
                 /\ Done(d)
                 /\ \E i \in Shows(d) :
                      Posts(d) = {i + 1}
                      /\ ui[i + 1].msg = [requestId |-> disp[d].requestId,
                                         error |-> Rejection(creation)]
            /\ (Failed(d) /\ ~DecodeThrows(disp[d].payload.value)) =>
                 disp[d].thrown = Rejection(creation)

\* newbranch on a log entry with one ref: createBranch was called and
\* rejected, the entry still has its one ref, and an error envelope is posted.
C17_Witness ==
    \E d \in Dispatches :
      /\ disp[d].cmd = "doAction" /\ disp[d].payload.name = "newbranch"
      /\ disp[d].calls = <<[fn |-> "createBranch", name |-> "dev", hash |-> "abc"]>>
      /\ disp[d].thrown = Rejection("createBranch")
      /\ disp[d].logEntry.refs = <<[type |-> "Head", name |-> "main"]>>
      /\ \E i \in Posts(d) : HasError(ui[i].msg)

(***************************************************************************)
(* C18.  doSomethingWithCommit and selectCommittedFile start one external  *)
(* command and never wait for it: the dispatch is answered by one envelope *)
(* {requestId, payload: undefined}, whether the command is still running,  *)
(* has resolved or has rejected, and never by an error envelope or a       *)
(* showErrorMessage call.  The default branch of doAction waits for its    *)
(* external command: it is not answered while the command runs, and a      *)
(* rejection is shown and answered by an error envelope.                   *)
(***************************************************************************)
C18_ExternalCommandNotAwaited ==
    \A d \in Dispatches :
      /\ disp[d].cmd \in {"doSomethingWithCommit", "selectCommittedFile"} =>
           /\ disp[d].calls =
                <<[fn |-> "executeCommand",
                   command |-> (IF disp[d].cmd = "doSomethingWithCommit"
                                THEN "git.commit.doSomething"
                                ELSE "git.commit.file.select"),
                   awaited |-> FALSE]>>
           /\ disp[d].pc \in {"resume", "done"} /\ disp[d].thrown = NoError
           /\ Shows(d) = {}
           /\ \A i \in Posts(d) :
                ui[i].msg = [requestId |-> disp[d].requestId, payload |-> Undefined]
           /\ Cardinality(Posts(d)) = (IF Done(d) THEN 1 ELSE 0)
      /\ (/\ disp[d].cmd = "doAction"
          /\ disp[d].payload.name \notin {"newtag", "newbranch", "reset_hard", "reset_soft"}
          /\ ~DecodeThrows(disp[d].payload.value)) =>
           /\ disp[d].calls =
                <<[fn |-> "executeCommand", command |-> "git.commit.doSomething",
                   awaited |-> TRUE]>>
           /\ d \notin NotAwaited
           /\ ~Done(d) => (disp[d].pc = "await1" /\ Posts(d) = {})
           /\ Failed(d) =>
                /\ disp[d].thrown = Rejection("executeCommand")
                /\ \E i \in Shows(d) :
                     Posts(d) = {i + 1}
                     /\ ui[i + 1].msg = [requestId |-> disp[d].requestId,
                                        error |-> Rejection("executeCommand")]

\* doSomethingWithCommit was answered with its success envelope, and the
\* external command rejected after that: nothing else has reached the UI.
C18_Witness ==
    \E d \in Dispatches, e \in executed :
      /\ disp[d].cmd = "doSomethingWithCommit" /\ Done(d)
      /\ e.from = d /\ e.outcome = "rejected"
      /\ \E i \in Posts(d) : HasPayload(ui[i].msg) /\ i <= e.uiLen
      /\ Len(ui) = 1

(***************************************************************************)
(* C19.  As long as the owner has not called dispose(), both subscriptions *)
(* stay bound, whatever envelopes the UI has sent.                         *)
(***************************************************************************)
C19_OnlyOwnerDisposeReleases ==
    nDispose = 0 => \A n \in DOMAIN subs : subs[n].bound

=============================================================================
